---------------------------- MODULE Spec2Model ----------------------------
(***************************************************************************)
(* A model of the HD44780 i2c character-display driver                     *)
(* (src/hd44780/HD44780.py).                                               *)
(*                                                                         *)
(* The state is the driver object's fields, the trace of what the most     *)
(* recent call handed to the bus and to sleep(), and the two controller    *)
(* registers as an observer of the bus decodes them.  Every public         *)
(* operation of the class is one action that performs the whole call.      *)
(***************************************************************************)
EXTENDS Integers, Sequences, FiniteSets

(***************************************************************************)
(* Bounds of the model.                                                    *)
(***************************************************************************)
MaxText == 2
MaxScroll == 2

(***************************************************************************)
(* Class constants, HD44780.py lines 42-89.                                *)
(***************************************************************************)
Left == FALSE
Right == TRUE

CLEAR_DISPLAY == 1
RETURN_HOME == 2
ENTRY_MODE_SET == 4
DISPLAY_SET == 8
CURSOR_SHIFT == 16
FUNCTION_SET == 32
CGRAM_ADDR_SET == 64
DDRAM_ADDR_SET == 128

ENTRY_MODE_DEC == 0
ENTRY_MODE_INC == 1
ENTRY_MODE_SHRIGHT == 0
ENTRY_MODE_SHLEFT == 2

DISPLAY_BLINK_OFF == 0
DISPLAY_BLINK_ON == 1
DISPLAY_CURSOR_OFF == 0
DISPLAY_CURSOR_ON == 2
DISPLAY_OFF == 0
DISPLAY_ON == 4

DC_MOVE_LEFT == 0
DC_MOVE_RIGHT == 4
DC_CURSOR_MOVE == 0
DC_DISPLAY_MOVE == 8

FUNCTION_5X8 == 0
FUNCTION_5X10 == 4
FUNCTION_1LINE == 0
FUNCTION_2LINE == 8
FUNCTION_4BIT == 0
FUNCTION_8BIT == 16

REG_RS == 1
REG_RW == 2
REG_EN == 4
REG_BL == 8
REG_D4 == 16
REG_D5 == 32
REG_D6 == 64
REG_D7 == 128

(***************************************************************************)
(* Python's integer operators on the non-negative integers the driver      *)
(* computes with.  Python integers are unbounded: nothing is cut to 8 bits.*)
(***************************************************************************)
\* & and | on single bits, then on nibbles (tabulated once).
RECURSIVE BitAnd(_, _)
BitAnd(x, y) ==
    IF x = 0 \/ y = 0 THEN 0
    ELSE (x % 2) * (y % 2) + 2 * BitAnd(x \div 2, y \div 2)

RECURSIVE BitOr(_, _)
BitOr(x, y) ==
    IF x = 0 THEN y
    ELSE IF y = 0 THEN x
    ELSE (IF x % 2 = 1 \/ y % 2 = 1 THEN 1 ELSE 0)
         + 2 * BitOr(x \div 2, y \div 2)

AndTable == [x \in 0..15 |-> [y \in 0..15 |-> BitAnd(x, y)]]
OrTable == [x \in 0..15 |-> [y \in 0..15 |-> BitOr(x, y)]]

\* x & y
RECURSIVE And(_, _)
And(x, y) ==
    IF x = 0 \/ y = 0 THEN 0
    ELSE AndTable[x % 16][y % 16] + 16 * And(x \div 16, y \div 16)

\* x | y
RECURSIVE Or(_, _)
Or(x, y) ==
    IF x = 0 THEN y
    ELSE IF y = 0 THEN x
    ELSE OrTable[x % 16][y % 16] + 16 * Or(x \div 16, y \div 16)

\* x & ~m for x >= 0, m >= 0: ~m is -(m+1), all bits set but those of m.
AndNot(x, m) == x - And(x, m)

\* x << 4
Shl4(x) == x * 16

(***************************************************************************)
(* The events of a call: a byte handed to i2c.write_byte(addr, v), or a    *)
(* sleep(), its duration in nanoseconds.                                   *)
(***************************************************************************)
BusWrite(a, v) == [k |-> "w", a |-> a, v |-> v]
Sleep(ns) == [k |-> "s", ns |-> ns]

\* A pulse that returns without the wait after the falling edge.
write_reg_no_settle(a, reg) ==
    << BusWrite(a, Or(reg, REG_EN)),
       Sleep(1000),
       BusWrite(a, AndNot(reg, REG_EN)) >>

\* write_reg: EN high, 1 us, EN low, 44 us.
write_reg(a, reg) ==
    << BusWrite(a, Or(reg, REG_EN)),
       Sleep(1000),
       BusWrite(a, AndNot(reg, REG_EN)),
       Sleep(44000) >>

\* The two nibbles in the wrong order.
write_cmd_low_first(a, bl, val, flags) ==
    LET f == Or(flags, IF bl THEN REG_BL ELSE 0)
    IN  write_reg(a, Or(Shl4(val), f)) \o write_reg(a, Or(And(val, 240), f))

\* The backlight bit set whatever the flag says.
write_cmd_always_bl(a, bl, val, flags) ==
    LET f == Or(flags, REG_BL)
    IN  write_reg(a, Or(And(val, 240), f)) \o write_reg(a, Or(Shl4(val), f))

\* write_cmd(val, flags): bl is self.backlight at the call.
write_cmd(a, bl, val, flags) ==
    LET f == Or(flags, IF bl THEN REG_BL ELSE 0)
    IN  write_reg(a, Or(And(val, 240), f)) \o write_reg(a, Or(Shl4(val), f))

\* The events of write_char(val).
write_char_events(a, bl, val) == write_cmd(a, bl, val, REG_RS)

(***************************************************************************)
(* Characters are one-character strings; ord() gives their code.           *)
(***************************************************************************)
Alphabet == {"H", "D"}

ord(c) ==
    CASE c = "H" -> 72
      [] c = "D" -> 68

\* The events of write_text(val): write_char(ord(c)) for each c, in order.
RECURSIVE write_text_events(_, _, _)
write_text_events(a, bl, val) ==
    IF val = <<>> THEN <<>>
    ELSE write_char_events(a, bl, ord(Head(val)))
         \o write_text_events(a, bl, Tail(val))

(***************************************************************************)
(* The observer of the bus.  The controller latches the data lines D7..D4  *)
(* and RS on the falling edge of EN: a write with EN clear that follows a  *)
(* write with EN set.  In 4-bit mode two latched nibbles, high then low,   *)
(* make one byte: an instruction when RS = 0, a character when RS = 1.     *)
(***************************************************************************)
Bit(v, b) == (v \div b) % 2
Nibble(v) == (v \div REG_D4) % 16

IsWrite(e) == e.k = "w"
Writes(ev) == SelectSeq(ev, IsWrite)

Pulses(ev) ==
    LET w == Writes(ev)
        latch(i) == /\ i > 1
                    /\ Bit(w[i].v, REG_EN) = 0
                    /\ Bit(w[i - 1].v, REG_EN) = 1
        idx == SelectSeq([i \in 1..Len(w) |-> i], latch)
    IN  [j \in 1..Len(idx) |-> w[idx[j]].v]

\* The bytes transferred by the pulses after the first skip ones.
Transfers(ev, skip) ==
    LET p == Pulses(ev)
        n == IF Len(p) > skip THEN (Len(p) - skip) \div 2 ELSE 0
    IN  [i \in 1..n |->
            [val |-> Nibble(p[skip + 2 * i - 1]) * 16 + Nibble(p[skip + 2 * i]),
             rs  |-> Bit(p[skip + 2 * i - 1], REG_RS),
             rsl |-> Bit(p[skip + 2 * i], REG_RS)]]

\* An instruction byte is told by its highest set bit (the opcode).
IsCmd(t, opcode) == t.rs = 0 /\ t.val >= opcode /\ t.val < 2 * opcode

\* The flag bits of the last instruction with this opcode, else prev.
RECURSIVE LastFlags(_, _, _)
LastFlags(ts, opcode, prev) ==
    IF ts = <<>> THEN prev
    ELSE LET t == ts[Len(ts)]
         IN  IF IsCmd(t, opcode) THEN t.val - opcode
             ELSE LastFlags(SubSeq(ts, 1, Len(ts) - 1), opcode, prev)

(***************************************************************************)
(* State.                                                                  *)
(***************************************************************************)
VARIABLES
    constructed,     \* __init__ has returned an instance
    rows_arg,        \* the rows argument __init__ was called with
    rows,            \* self.rows
    cols,            \* self.cols
    addr,            \* self.addr
    backlight,       \* self.backlight
    _display,        \* self._display
    _entry_mode,     \* self._entry_mode
    call,            \* the most recent call and its arguments
    exc,             \* the exception the most recent call raised, or "none"
    bus,             \* the events of the most recent call, in order
    dev_display,     \* flags of the last DisplaySet the bus carried, or -1
    dev_entry_mode,  \* flags of the last EntryModeSet the bus carried, or -1
    req              \* the value last requested for each display-control flag

vars == << constructed, rows_arg, rows, cols, addr, backlight, _display,
           _entry_mode, call, exc, bus, dev_display, dev_entry_mode, req >>

config == << constructed, rows_arg, rows, cols, addr >>

Call(op, args) == [op |-> op, args |-> args]

\* The call's events reach the bus; the observer decodes them.
Issue(ev, skip) ==
    \E e \in {ev} :
        \E ts \in {Transfers(e, skip)} :
            /\ bus' = e
            /\ dev_display' = LastFlags(ts, DISPLAY_SET, dev_display)
            /\ dev_entry_mode' = LastFlags(ts, ENTRY_MODE_SET, dev_entry_mode)

Init ==
    /\ constructed = FALSE
    /\ rows_arg = 0
    /\ rows = 0
    /\ cols = 0
    /\ addr = 0
    /\ backlight = FALSE
    /\ _display = 0
    /\ _entry_mode = 0
    /\ call = Call("none", <<>>)
    /\ exc = "none"
    /\ bus = <<>>
    /\ dev_display = -1
    /\ dev_entry_mode = -1
    /\ req = [display |-> FALSE, cursor |-> FALSE, cursor_blink |-> FALSE]

(***************************************************************************)
(* HD44780(rows, cols, addr): lines 93-124.                                *)
(***************************************************************************)
\* The argument of the first write_cmd, lines 111-112: the conditional
\* expression binds looser than |.
function_set_arg(rowsArg) ==
    IF rowsArg = 1
    THEN Or(Or(Or(FUNCTION_SET, FUNCTION_4BIT), FUNCTION_5X8), FUNCTION_1LINE)
    ELSE FUNCTION_2LINE

init_display == Or(Or(DISPLAY_ON, DISPLAY_CURSOR_OFF), DISPLAY_BLINK_OFF)

\* A default with flag 0x01 set instead of flag 0x02.
init_entry_mode_inc == Or(ENTRY_MODE_SHRIGHT, ENTRY_MODE_INC)

init_entry_mode == Or(ENTRY_MODE_SHLEFT, ENTRY_MODE_DEC)

\* An init sequence without the D5-only pulse.
init_forcing_three(a) ==
    write_reg(a, Or(REG_D5, REG_D4)) \o << Sleep(4500000) >>
    \o write_reg(a, Or(REG_D5, REG_D4)) \o << Sleep(110000) >>
    \o write_reg(a, Or(REG_D5, REG_D4))

\* The four raw pulses that force 4-bit mode, lines 103-108.
init_forcing(a) ==
    write_reg(a, Or(REG_D5, REG_D4)) \o << Sleep(4500000) >>
    \o write_reg(a, Or(REG_D5, REG_D4)) \o << Sleep(110000) >>
    \o write_reg(a, Or(REG_D5, REG_D4))
    \o write_reg(a, REG_D5)

\* The commands without the wait after ClearDisplay.
init_commands_no_settle(rowsArg, a, bl) ==
    write_cmd(a, bl, function_set_arg(rowsArg), 0)
    \o write_cmd(a, bl, Or(DISPLAY_SET, init_display), 0)
    \o write_cmd(a, bl, CLEAR_DISPLAY, 0)
    \o write_cmd(a, bl, Or(ENTRY_MODE_SET, init_entry_mode), 0)

\* The commands that follow them, lines 110-124; bl is self.backlight.
init_commands(rowsArg, a, bl) ==
    write_cmd(a, bl, function_set_arg(rowsArg), 0)
    \o write_cmd(a, bl, Or(DISPLAY_SET, init_display), 0)
    \o write_cmd(a, bl, CLEAR_DISPLAY, 0) \o << Sleep(1670000) >>
    \o write_cmd(a, bl, Or(ENTRY_MODE_SET, init_entry_mode), 0)

__init__(rowsArg, colsArg, addrArg) ==
    /\ ~constructed
    /\ constructed' = TRUE
    /\ rows_arg' = rowsArg
    /\ rows' = IF rowsArg = 1 THEN 1 ELSE 2
    /\ cols' = colsArg
    /\ addr' = addrArg
    /\ backlight' = TRUE
    /\ _display' = init_display
    /\ _entry_mode' = init_entry_mode
    /\ call' = Call("__init__", <<rowsArg, colsArg, addrArg>>)
    /\ exc' = "none"
    /\ Issue(init_forcing(addrArg) \o init_commands(rowsArg, addrArg, TRUE), 4)
    /\ req' = [display |-> TRUE, cursor |-> FALSE, cursor_blink |-> FALSE]

(***************************************************************************)
(* The calls on a constructed driver.                                      *)
(***************************************************************************)
\* A call that completes: its events reach the bus, nothing is raised.
Returns(op, args, ev) ==
    /\ constructed
    /\ call' = Call(op, args)
    /\ exc' = "none"
    /\ Issue(ev, 0)
    /\ UNCHANGED config

\* write_char(val), lines 137-138.
write_char(val) ==
    /\ Returns("write_char", <<val>>, write_char_events(addr, backlight, val))
    /\ UNCHANGED << backlight, _display, _entry_mode, req >>

\* write_text(val), lines 140-142.
write_text(val) ==
    /\ Returns("write_text", <<val>>, write_text_events(addr, backlight, val))
    /\ UNCHANGED << backlight, _display, _entry_mode, req >>

\* Addressing without the bank-alias correction.
cursor_pos_linear(row, col, columns) == 64 * row + col

\* Addressing with the width of a 16-column display built in.
cursor_pos_cols16(row, col, columns) ==
    LET pos == 64 * row + col
    IN  IF row > 1 THEN pos - (128 - 16) ELSE pos

\* The DDRAM address set_cursor computes, lines 145-147.
cursor_pos(row, col, columns) ==
    LET pos == 64 * row + col
    IN  IF row > 1 THEN pos - (128 - columns) ELSE pos

\* set_cursor(row, col), lines 144-148.
set_cursor(row, col) ==
    /\ Returns("set_cursor", <<row, col>>,
               write_cmd(addr, backlight,
                         Or(DDRAM_ADDR_SET, cursor_pos(row, col, cols)), 0))
    /\ UNCHANGED << backlight, _display, _entry_mode, req >>

\* clear() and home(), lines 150-156, are defined without the self
\* parameter: lcd.clear() raises TypeError before the body runs (and the
\* body, called without an instance, has no self to write with).
clear ==
    /\ constructed
    /\ call' = Call("clear", <<>>)
    /\ exc' = "TypeError"
    /\ Issue(<<>>, 0)
    /\ UNCHANGED << config, backlight, _display, _entry_mode, req >>

home ==
    /\ constructed
    /\ call' = Call("home", <<>>)
    /\ exc' = "TypeError"
    /\ Issue(<<>>, 0)
    /\ UNCHANGED << config, backlight, _display, _entry_mode, req >>

\* lcd.backlight = val: a plain attribute, line 98.
set_backlight(val) ==
    /\ Returns("backlight", <<val>>, <<>>)
    /\ backlight' = val
    /\ UNCHANGED << _display, _entry_mode, req >>

\* The bitmask each setter stores: |= flag, or &= ~flag.
display_mask(d, val) ==
    IF val THEN Or(d, DISPLAY_ON) ELSE AndNot(d, DISPLAY_ON)

\* A setter that assigns the flag instead of merging it.
cursor_mask_assign(d, val) == IF val THEN DISPLAY_CURSOR_ON ELSE 0

cursor_mask(d, val) ==
    IF val THEN Or(d, DISPLAY_CURSOR_ON) ELSE AndNot(d, DISPLAY_CURSOR_ON)

\* A setter whose else branch is lost.
cursor_blink_mask_set(d, val) == Or(d, DISPLAY_BLINK_ON)

cursor_blink_mask(d, val) ==
    IF val THEN Or(d, DISPLAY_BLINK_ON) ELSE AndNot(d, DISPLAY_BLINK_ON)

scroll_lock_mask(m, val) ==
    IF val THEN Or(m, ENTRY_MODE_INC) ELSE AndNot(m, ENTRY_MODE_INC)

left_to_right_mask(m, val) ==
    IF val THEN Or(m, ENTRY_MODE_SHLEFT) ELSE AndNot(m, ENTRY_MODE_SHLEFT)

\* A command that carries the display-on flag alone.
display_cmd_partial(d) == Or(DISPLAY_SET, And(d, DISPLAY_ON))

\* The command each group's setters write.
display_cmd(d) == Or(DISPLAY_SET, d)
entry_mode_cmd(m) == Or(ENTRY_MODE_SET, m)

\* The tail of a display-control setter: the new bitmask is stored, then
\* written.
store_display(op, val, d) ==
    /\ _display' = d
    /\ Returns(op, <<val>>, write_cmd(addr, backlight, display_cmd(d), 0))
    /\ UNCHANGED << backlight, _entry_mode >>

\* The tail of an entry-mode setter.
store_entry_mode(op, val, m) ==
    /\ _entry_mode' = m
    /\ Returns(op, <<val>>, write_cmd(addr, backlight, entry_mode_cmd(m), 0))
    /\ UNCHANGED << backlight, _display, req >>

\* The display-control setters, lines 163-191.
display(val) ==
    /\ store_display("display", val, display_mask(_display, val))
    /\ req' = [req EXCEPT !.display = val]

cursor(val) ==
    /\ store_display("cursor", val, cursor_mask(_display, val))
    /\ req' = [req EXCEPT !.cursor = val]

cursor_blink(val) ==
    /\ store_display("cursor_blink", val, cursor_blink_mask(_display, val))
    /\ req' = [req EXCEPT !.cursor_blink = val]

\* The entry-mode setters, lines 196-220.
scroll_lock(val) ==
    store_entry_mode("scroll_lock", val, scroll_lock_mask(_entry_mode, val))

left_to_right(val) ==
    store_entry_mode("left_to_right", val,
                     left_to_right_mask(_entry_mode, val))

\* self.left_to_right = not val, line 220.
right_to_left(val) ==
    store_entry_mode("right_to_left", val,
                     left_to_right_mask(_entry_mode, ~val))

\* The argument of write_cmd in scroll_cursor and scroll_display, lines 224
\* and 228: the conditional expression binds looser than |.
shift_arg(move, dir) ==
    IF dir THEN Or(Or(CURSOR_SHIFT, move), DC_MOVE_RIGHT) ELSE DC_MOVE_LEFT

\* for col in range(cols): self.write_cmd(val)
RECURSIVE repeat_cmd(_, _, _, _)
repeat_cmd(n, a, bl, val) ==
    IF n <= 0 THEN <<>>
    ELSE write_cmd(a, bl, val, 0) \o repeat_cmd(n - 1, a, bl, val)

scroll_cursor(n, dir) ==
    /\ Returns("scroll_cursor", <<n, dir>>,
               repeat_cmd(n, addr, backlight, shift_arg(DC_CURSOR_MOVE, dir)))
    /\ UNCHANGED << backlight, _display, _entry_mode, req >>

scroll_display(n, dir) ==
    /\ Returns("scroll_display", <<n, dir>>,
               repeat_cmd(n, addr, backlight, shift_arg(DC_DISPLAY_MOVE, dir)))
    /\ UNCHANGED << backlight, _display, _entry_mode, req >>

(***************************************************************************)
(* The getters, lines 160-217: tests of the in-memory bitmasks.            *)
(***************************************************************************)
get_display == DISPLAY_ON = And(_display, DISPLAY_ON)
get_cursor == DISPLAY_CURSOR_ON = And(_display, DISPLAY_CURSOR_ON)
get_cursor_blink == DISPLAY_BLINK_ON = And(_display, DISPLAY_BLINK_ON)
get_scroll_lock == ENTRY_MODE_INC = And(_entry_mode, ENTRY_MODE_INC)
get_left_to_right == ENTRY_MODE_SHLEFT = And(_entry_mode, ENTRY_MODE_SHLEFT)
get_right_to_left == ~get_left_to_right

(***************************************************************************)
(* A failing bus.  i2c.write_byte raises IOError when the transfer fails;  *)
(* no method of the class catches it (there is no try statement in the     *)
(* file), so it leaves write_reg, write_cmd and the calling method at the  *)
(* failing statement.  The byte of a write that raised has not reached the *)
(* expander: the event is recorded as an attempt, which the observer does  *)
(* not decode.                                                             *)
(***************************************************************************)
Attempt(a, v) == [k |-> "x", a |-> a, v |-> v]
IsAttempt(e) == e.k = "x"

\* The position in ev of its n-th bus write.
WriteIndex(ev, n) ==
    LET at(i) == IsWrite(ev[i])
    IN  SelectSeq([i \in 1..Len(ev) |-> i], at)[n]

\* A bus that fails once and lets the retried byte through.
FailAt_retried(ev, n) ==
    LET i == WriteIndex(ev, n)
    IN  SubSeq(ev, 1, i - 1) \o << Attempt(ev[i].a, ev[i].v), ev[i] >>

\* The events of a call whose n-th bus write raises: what came before it,
\* and the attempt.
FailAt(ev, n) ==
    LET i == WriteIndex(ev, n)
    IN  SubSeq(ev, 1, i - 1) \o << Attempt(ev[i].a, ev[i].v) >>

\* A call on a constructed driver whose n-th bus write raises.
Raises(op, args, ev, n) ==
    /\ constructed
    /\ n \in 1..Len(Writes(ev))
    /\ call' = Call(op, args)
    /\ exc' = "IOError"
    /\ Issue(FailAt(ev, n), 0)
    /\ UNCHANGED config

\* HD44780(rows, cols, addr) when a write of the init sequence raises: the
\* exception leaves __init__, the caller gets no instance.
__init___raises(rowsArg, colsArg, addrArg, n) ==
    LET ev == init_forcing(addrArg) \o init_commands(rowsArg, addrArg, TRUE)
    IN  /\ ~constructed
        /\ n \in 1..Len(Writes(ev))
        /\ call' = Call("__init__", <<rowsArg, colsArg, addrArg>>)
        /\ exc' = "IOError"
        /\ Issue(FailAt(ev, n), 4)
        /\ UNCHANGED << config, backlight, _display, _entry_mode, req >>

write_char_raises(val, n) ==
    /\ Raises("write_char", <<val>>,
              write_char_events(addr, backlight, val), n)
    /\ UNCHANGED << backlight, _display, _entry_mode, req >>

write_text_raises(val, n) ==
    /\ Raises("write_text", <<val>>,
              write_text_events(addr, backlight, val), n)
    /\ UNCHANGED << backlight, _display, _entry_mode, req >>

set_cursor_raises(row, col, n) ==
    /\ Raises("set_cursor", <<row, col>>,
              write_cmd(addr, backlight,
                        Or(DDRAM_ADDR_SET, cursor_pos(row, col, cols)), 0), n)
    /\ UNCHANGED << backlight, _display, _entry_mode, req >>

\* The tail of a display-control setter whose write raises: the bitmask
\* was stored by the statement before write_cmd (lines 165-169).
store_display_raises(op, val, d, n) ==
    /\ _display' = d
    /\ Raises(op, <<val>>, write_cmd(addr, backlight, display_cmd(d), 0), n)
    /\ UNCHANGED << backlight, _entry_mode >>

\* The tail of an entry-mode setter whose write raises (lines 198-202).
store_entry_mode_raises(op, val, m, n) ==
    /\ _entry_mode' = m
    /\ Raises(op, <<val>>,
              write_cmd(addr, backlight, entry_mode_cmd(m), 0), n)
    /\ UNCHANGED << backlight, _display, req >>

display_raises(val, n) ==
    /\ store_display_raises("display", val, display_mask(_display, val), n)
    /\ req' = [req EXCEPT !.display = val]

cursor_raises(val, n) ==
    /\ store_display_raises("cursor", val, cursor_mask(_display, val), n)
    /\ req' = [req EXCEPT !.cursor = val]

cursor_blink_raises(val, n) ==
    /\ store_display_raises("cursor_blink", val,
                            cursor_blink_mask(_display, val), n)
    /\ req' = [req EXCEPT !.cursor_blink = val]

scroll_lock_raises(val, n) ==
    store_entry_mode_raises("scroll_lock", val,
                            scroll_lock_mask(_entry_mode, val), n)

left_to_right_raises(val, n) ==
    store_entry_mode_raises("left_to_right", val,
                            left_to_right_mask(_entry_mode, val), n)

right_to_left_raises(val, n) ==
    store_entry_mode_raises("right_to_left", val,
                            left_to_right_mask(_entry_mode, ~val), n)

scroll_cursor_raises(k, dir, n) ==
    /\ Raises("scroll_cursor", <<k, dir>>,
              repeat_cmd(k, addr, backlight, shift_arg(DC_CURSOR_MOVE, dir)),
              n)
    /\ UNCHANGED << backlight, _display, _entry_mode, req >>

scroll_display_raises(k, dir, n) ==
    /\ Raises("scroll_display", <<k, dir>>,
              repeat_cmd(k, addr, backlight, shift_arg(DC_DISPLAY_MOVE, dir)),
              n)
    /\ UNCHANGED << backlight, _display, _entry_mode, req >>

(***************************************************************************)
(* The inputs the calls are tried with.                                    *)
(***************************************************************************)
\* The configuration of main() and a one-row display at the other address
\* main() names.
Configs == { <<4, 20, 63>>, <<1, 16, 39>> }

\* Every combination of rows, columns and the two i2c addresses; __init__
\* takes any value, zero columns included.
RowsArgs == {1, 2, 4}
ColsArgs == {0, 8, 16, 20}
AddrArgs == {39, 63}

Bytes == 0..255
ByteSample == {72, 255}
ColSample == {0, cols - 1}

RECURSIVE TextsOfLen(_)
TextsOfLen(n) ==
    IF n = 0 THEN {<<>>}
    ELSE {<<c>> \o t : c \in Alphabet, t \in TextsOfLen(n - 1)}

Texts == UNION {TextsOfLen(n) : n \in 0..MaxText}

Construct == \E c \in Configs : __init__(c[1], c[2], c[3])

ConstructAny ==
    \E r \in RowsArgs, c \in ColsArgs, a \in AddrArgs : __init__(r, c, a)

Setters ==
    \E val \in BOOLEAN :
        \/ display(val)
        \/ cursor(val)
        \/ cursor_blink(val)
        \/ scroll_lock(val)
        \/ left_to_right(val)
        \/ right_to_left(val)

Scrolls ==
    \E n \in 0..MaxScroll, dir \in {Left, Right} :
        \/ scroll_cursor(n, dir)
        \/ scroll_display(n, dir)

\* Every operation of the class.
Next ==
    \/ Construct
    \/ Setters
    \/ Scrolls
    \/ \E val \in ByteSample : write_char(val)
    \/ \E val \in Texts : write_text(val)
    \/ \E row \in 0..3, col \in ColSample : set_cursor(row, col)
    \/ \E val \in BOOLEAN : set_backlight(val)
    \/ clear
    \/ home

Spec == Init /\ [][Next]_vars

\* Character output, with every byte.
NextEnc ==
    \/ Construct
    \/ \E val \in Bytes : write_char(val)
    \/ \E val \in Texts : write_text(val)
    \/ \E val \in BOOLEAN : set_backlight(val)

SpecEnc == Init /\ [][NextEnc]_vars

\* Construction and cursor addressing, with every configuration and every
\* position of the display.
NextConfig ==
    \/ ConstructAny
    \/ \E row \in 0..3, col \in 0..(cols - 1) : set_cursor(row, col)

SpecConfig == Init /\ [][NextConfig]_vars

\* Every operation that writes to the bus, on a bus that may fail at any
\* write: a command is four bus writes (two per write_reg), construction
\* eight for the forcing pulses and four commands.
NthWrite(commands) == 1..(4 * commands)
FailText == << "H", "D" >>

SetterRaises ==
    \E val \in BOOLEAN, n \in NthWrite(1) :
        \/ display_raises(val, n)
        \/ cursor_raises(val, n)
        \/ cursor_blink_raises(val, n)
        \/ scroll_lock_raises(val, n)
        \/ left_to_right_raises(val, n)
        \/ right_to_left_raises(val, n)

ScrollRaises ==
    \E dir \in {Left, Right}, n \in NthWrite(MaxScroll) :
        \/ scroll_cursor_raises(MaxScroll, dir, n)
        \/ scroll_display_raises(MaxScroll, dir, n)

\* Construction, then calls of which any may fail; the calls that return
\* are those of write_char.
NextFail ==
    \/ Construct
    \/ \E c \in Configs, n \in NthWrite(6) :
           __init___raises(c[1], c[2], c[3], n)
    \/ SetterRaises
    \/ ScrollRaises
    \/ \E val \in ByteSample : write_char(val)
    \/ \E val \in ByteSample, n \in NthWrite(1) : write_char_raises(val, n)
    \/ \E n \in NthWrite(Len(FailText)) : write_text_raises(FailText, n)
    \/ \E col \in ColSample, n \in NthWrite(1) : set_cursor_raises(3, col, n)

SpecFail == Init /\ [][NextFail]_vars

(***************************************************************************)
(* What the most recent call put on the bus.                               *)
(***************************************************************************)
LastPulses == Pulses(bus)
LastTransfers == Transfers(bus, IF call.op = "__init__" THEN 4 ELSE 0)
WriteValues == [i \in 1..Len(Writes(bus)) |-> Writes(bus)[i].v]
Command(byte) == [val |-> byte, rs |-> 0, rsl |-> 0]

(***************************************************************************)
(* C1: every attribute setter leaves the targeted flag at the requested    *)
(* value, every other flag of its group and the other group's bitmask      *)
(* unchanged, and issues exactly one command: DisplaySet or EntryModeSet   *)
(* with the full new bitmask of its group.                                 *)
(***************************************************************************)
DisplaySetterFrame(bit) ==
    /\ _display' \in 0..7
    /\ AndNot(_display', bit) = AndNot(_display, bit)
    /\ _entry_mode' = _entry_mode
    /\ Len(Writes(bus')) = 4
    /\ Transfers(bus', 0) = << Command(DISPLAY_SET + _display') >>

EntrySetterFrame(bit) ==
    /\ _entry_mode' \in 0..3
    /\ AndNot(_entry_mode', bit) = AndNot(_entry_mode, bit)
    /\ _display' = _display
    /\ Len(Writes(bus')) = 4
    /\ Transfers(bus', 0) = << Command(ENTRY_MODE_SET + _entry_mode') >>

SetterEffect ==
    LET op == call'.op
        val == call'.args[1]
    IN  /\ op = "display" =>
              get_display' = val /\ DisplaySetterFrame(DISPLAY_ON)
        /\ op = "cursor" =>
              get_cursor' = val /\ DisplaySetterFrame(DISPLAY_CURSOR_ON)
        /\ op = "cursor_blink" =>
              get_cursor_blink' = val /\ DisplaySetterFrame(DISPLAY_BLINK_ON)
        /\ op = "scroll_lock" =>
              get_scroll_lock' = val /\ EntrySetterFrame(ENTRY_MODE_INC)
        /\ op = "left_to_right" =>
              get_left_to_right' = val /\ EntrySetterFrame(ENTRY_MODE_SHLEFT)
        /\ op = "right_to_left" =>
              get_right_to_left' = val /\ EntrySetterFrame(ENTRY_MODE_SHLEFT)

C1_SetterFrame == [][constructed => SetterEffect]_vars

C1_Witness ==
    /\ call.op = "cursor_blink"
    /\ call.args = <<FALSE>>
    /\ _display = 6
    /\ _entry_mode = 3

(***************************************************************************)
(* C2: on a constructed driver the in-memory display-control bitmask is    *)
(* the flag bits of the last DisplaySet command the bus carried, and the   *)
(* in-memory entry-mode bitmask those of the last EntryModeSet command.    *)
(***************************************************************************)
C2_MemoryMatchesBus ==
    constructed => dev_display = _display /\ dev_entry_mode = _entry_mode

C2_Witness ==
    /\ call.op = "write_text"
    /\ dev_display = 2
    /\ _display = 2
    /\ dev_entry_mode = 1
    /\ _entry_mode = 1

(***************************************************************************)
(* C3: after any sequence of display / cursor / cursor_blink mutations the *)
(* in-memory display bitmask is the combination of the value last          *)
(* requested for each flag, the last DisplaySet command encodes it, and    *)
(* setting two different flags gives the same bitmask and the same command *)
(* byte in either order.                                                   *)
(***************************************************************************)
Combined(r) ==
    (IF r.display THEN DISPLAY_ON ELSE 0)
    + (IF r.cursor THEN DISPLAY_CURSOR_ON ELSE 0)
    + (IF r.cursor_blink THEN DISPLAY_BLINK_ON ELSE 0)

DisplayFlags == {"display", "cursor", "cursor_blink"}

Mutate(flag, d, val) ==
    CASE flag = "display" -> display_mask(d, val)
      [] flag = "cursor" -> cursor_mask(d, val)
      [] flag = "cursor_blink" -> cursor_blink_mask(d, val)

C3_LastWriteWins ==
    constructed =>
        /\ _display = Combined(req)
        /\ dev_display = Combined(req)
        /\ \A X \in DisplayFlags : \A Y \in DisplayFlags \ {X} :
               \A vx \in BOOLEAN, vy \in BOOLEAN :
                   LET xy == Mutate(Y, Mutate(X, _display, vx), vy)
                       yx == Mutate(X, Mutate(Y, _display, vy), vx)
                   IN  xy = yx /\ display_cmd(xy) = display_cmd(yx)

C3_Witness ==
    /\ call.op = "cursor_blink"
    /\ req = [display |-> FALSE, cursor |-> TRUE, cursor_blink |-> TRUE]
    /\ _display = 3
    /\ dev_display = 3

(***************************************************************************)
(* C4, as claimed: the first five bus transactions of construction are     *)
(* exactly the forcing-mode raw writes, 0x30 pulsed three times and then   *)
(* 0x20, whatever the configuration.  A transaction is read either as an   *)
(* enable pulse or as a single bus write.                                  *)
(***************************************************************************)
ForcingPatterns == { Or(REG_D5, REG_D4), REG_D5 }

FivePulsesForcing ==
    /\ Len(LastPulses) >= 5
    /\ SubSeq(LastPulses, 1, 4) = <<48, 48, 48, 32>>
    /\ LastPulses[5] \in ForcingPatterns

FiveWritesForcing ==
    LET forcing == Writes(init_forcing(addr))
    IN  /\ Len(WriteValues) >= 5
        /\ SubSeq(WriteValues, 1, 5) = [i \in 1..Len(forcing) |-> forcing[i].v]

C4_FirstFiveForcing ==
    call.op = "__init__" => FivePulsesForcing \/ FiveWritesForcing

(***************************************************************************)
(* C4, amended: the first four enable pulses of construction, that is its  *)
(* first eight bus writes, are the forcing-mode raw writes, 0x30 pulsed    *)
(* three times and then 0x20, byte for byte, whatever the configuration;   *)
(* the fifth pulse belongs to the first command.                           *)
(***************************************************************************)
C4_FirstFourForcing ==
    call.op = "__init__" =>
        /\ Len(WriteValues) >= 8
        /\ SubSeq(WriteValues, 1, 8) = <<52, 48, 52, 48, 52, 48, 36, 32>>
        /\ \A i \in 1..8 : Writes(bus)[i].a = addr
        /\ SubSeq(LastPulses, 1, 4) = <<48, 48, 48, 32>>
        /\ LastPulses[5] \notin ForcingPatterns

C4_Witness ==
    /\ call.op = "__init__"
    /\ call.args = <<2, 16, 39>>
    /\ Len(LastPulses) = 12

(***************************************************************************)
(* C5: the first command of construction is FunctionSet: opcode bit 0x20   *)
(* set, 8-bit flag clear, 5x8 font, and the line-count bit set exactly     *)
(* when rows is not 1.                                                     *)
(***************************************************************************)
C5_FunctionSetFirst ==
    call.op = "__init__" =>
        LET t == LastTransfers[1]
        IN  /\ t.rs = 0
            /\ Bit(t.val, FUNCTION_SET) = 1
            /\ Bit(t.val, FUNCTION_8BIT) = 0
            /\ Bit(t.val, FUNCTION_5X10) = 0
            /\ Bit(t.val, FUNCTION_2LINE) = (IF call.args[1] = 1 THEN 0 ELSE 1)

(***************************************************************************)
(* C6: construction pulses the four forcing writes before any command and  *)
(* then issues FunctionSet, DisplaySet 0x0C, ClearDisplay 0x01 and         *)
(* EntryModeSet, in this order, each once and nothing else.                *)
(***************************************************************************)
C6_InitOrder ==
    call.op = "__init__" =>
        /\ Len(LastPulses) = 12
        /\ SubSeq(LastPulses, 1, 4) = <<48, 48, 48, 32>>
        /\ Len(LastTransfers) = 4
        /\ IsCmd(LastTransfers[1], FUNCTION_SET)
        /\ LastTransfers[2] = Command(12)
        /\ LastTransfers[3] = Command(CLEAR_DISPLAY)
        /\ IsCmd(LastTransfers[4], ENTRY_MODE_SET)

(***************************************************************************)
(* C7: write_char(c) makes exactly two enable pulses, the high nibble of c *)
(* then the low one, both with RS = 1, from which c is read back;          *)
(* write_text(s) makes 2 * len(s) pulses, all with RS = 1, that read back  *)
(* as the characters of s in order.                                        *)
(***************************************************************************)
PulsePair(p, i, c) ==
    /\ Bit(p[2 * i - 1], REG_RS) = 1
    /\ Bit(p[2 * i], REG_RS) = 1
    /\ Nibble(p[2 * i - 1]) = c \div 16
    /\ Nibble(p[2 * i]) = c % 16
    /\ Nibble(p[2 * i - 1]) * 16 + Nibble(p[2 * i]) = c

C7_CharRoundTrip ==
    /\ call.op = "write_char" =>
           /\ Len(Writes(bus)) = 4
           /\ Len(LastPulses) = 2
           /\ PulsePair(LastPulses, 1, call.args[1])
    /\ call.op = "write_text" =>
           LET s == call.args[1]
           IN  /\ Len(Writes(bus)) = 4 * Len(s)
               /\ Len(LastPulses) = 2 * Len(s)
               /\ \A i \in 1..Len(s) : PulsePair(LastPulses, i, ord(s[i]))

C7_Witness ==
    /\ call.op = "write_text"
    /\ call.args = << <<"H", "D">> >>
    /\ Len(LastPulses) = 4

(***************************************************************************)
(* C8: for every row in 0..3 and col below the column count, set_cursor    *)
(* issues one RS = 0 command: DDRAMAddressSet (0x80) ORed with 0x00 + col, *)
(* 0x40 + col, col + columns, 0x40 + col + columns for rows 0, 1, 2, 3.    *)
(***************************************************************************)
DocumentedAddress(row, col, columns) ==
    CASE row = 0 -> col
      [] row = 1 -> 64 + col
      [] row = 2 -> col + columns
      [] row = 3 -> 64 + col + columns

C8_CursorTable ==
    call.op = "set_cursor" =>
        LET a == DocumentedAddress(call.args[1], call.args[2], cols)
        IN  /\ a < 128
            /\ Len(Writes(bus)) = 4
            /\ LastTransfers = << Command(DDRAM_ADDR_SET + a) >>

C8_Witness ==
    /\ call.op = "set_cursor"
    /\ call.args = <<2, 5>>
    /\ cols = 16
    /\ LastTransfers = << Command(128 + 21) >>

(***************************************************************************)
(* C9, as claimed: set_cursor(3, 2) on a 4-row, 20-column driver issues    *)
(* DDRAMAddressSet with the address 0x16.                                  *)
(***************************************************************************)
Cursor32On4x20 ==
    /\ call.op = "set_cursor"
    /\ call.args = <<3, 2>>
    /\ rows_arg = 4
    /\ cols = 20

C9_Address0x16 ==
    Cursor32On4x20 => LastTransfers = << Command(DDRAM_ADDR_SET + 22) >>

(***************************************************************************)
(* C9, amended: set_cursor(3, 2) on a 4-row, 20-column driver issues       *)
(* DDRAMAddressSet with the address 0x56 (0x40 + 2 + 20).                  *)
(***************************************************************************)
C9_Address0x56 ==
    Cursor32On4x20 => LastTransfers = << Command(DDRAM_ADDR_SET + 86) >>

C9_Witness == Cursor32On4x20 /\ exc = "none" /\ Len(LastPulses) = 2

(***************************************************************************)
(* C10: clear() writes ClearDisplay (0x01) as one RS = 0 nibble pair and   *)
(* returns after a settle delay of at least 1.52 ms; home() does the same  *)
(* with ReturnHome (0x02); neither changes the in-memory bitmasks.         *)
(***************************************************************************)
SettleAfter(byte) ==
    /\ exc' = "none"
    /\ Transfers(bus', 0) = << Command(byte) >>
    /\ bus'[Len(bus')].k = "s"
    /\ bus'[Len(bus')].ns >= 1520000
    /\ _display' = _display
    /\ _entry_mode' = _entry_mode

C10_ClearHome ==
    [][/\ call'.op = "clear" => SettleAfter(CLEAR_DISPLAY)
       /\ call'.op = "home" => SettleAfter(RETURN_HOME)]_vars

(***************************************************************************)
(* C11: scroll_cursor(n, dir) and scroll_display(n, dir) issue exactly n   *)
(* CursorShift commands (opcode bit 0x10), with the display-move bit 0x08  *)
(* clear for scroll_cursor and set for scroll_display, and the direction   *)
(* bit 0x04 set exactly when dir is Right, for every n >= 0.               *)
(***************************************************************************)
ShiftCommand(t, move, dir) ==
    /\ IsCmd(t, CURSOR_SHIFT)
    /\ t.rsl = 0
    /\ Bit(t.val, DC_DISPLAY_MOVE) = (IF move THEN 1 ELSE 0)
    /\ Bit(t.val, DC_MOVE_RIGHT) = (IF dir = Right THEN 1 ELSE 0)

C11_ScrollCommands ==
    call.op \in {"scroll_cursor", "scroll_display"} =>
        /\ Len(LastTransfers) = call.args[1]
        /\ \A i \in 1..Len(LastTransfers) :
               ShiftCommand(LastTransfers[i], call.op = "scroll_display",
                            call.args[2])

(***************************************************************************)
(* C12: changing the backlight flag issues no bus write and changes        *)
(* neither bitmask; every bus write of every command or character written  *)
(* after the change carries the BL bit (0x08) equal to the new flag.       *)
(***************************************************************************)
BacklightBit == IF backlight THEN 1 ELSE 0

C12_BacklightFrame ==
    [][constructed =>
         /\ call'.op = "backlight" =>
                /\ backlight' = call'.args[1]
                /\ Writes(bus') = <<>>
                /\ _display' = _display
                /\ _entry_mode' = _entry_mode
         /\ call'.op # "backlight" =>
                /\ backlight' = backlight
                /\ \A i \in 1..Len(Writes(bus')) :
                       Bit(Writes(bus')[i].v, REG_BL) = BacklightBit]_vars

C12_Witness ==
    /\ call.op = "write_char"
    /\ backlight = FALSE
    /\ Len(Writes(bus)) = 4
    /\ \A i \in 1..4 : Bit(Writes(bus)[i].v, REG_BL) = 0

(***************************************************************************)
(* C13: a bus write that fails ends the operation with the failure raised  *)
(* to the caller: the failed write is attempted once, nothing (no write,   *)
(* no retry) follows it in the operation, and a failure during             *)
(* construction returns no instance.  A call that returns had no failed    *)
(* write.                                                                  *)
(***************************************************************************)
Attempts == SelectSeq(bus, IsAttempt)

C13_FailurePropagates ==
    /\ exc = "IOError" =>
           /\ Len(Attempts) = 1
           /\ IsAttempt(bus[Len(bus)])
           /\ call.op = "__init__" => ~constructed
    /\ exc # "IOError" => Attempts = <<>>

C13_Witness ==
    /\ exc = "IOError"
    /\ call.op = "__init__"
    /\ ~constructed
    /\ Len(Writes(bus)) = 9
    /\ IsAttempt(bus[Len(bus)])

(***************************************************************************)
(* C14: construction with invalid parameters (zero columns) is reported as *)
(* a configuration error before any bus write: no instance, no write.      *)
(***************************************************************************)
C14_InvalidRejected ==
    (call.op = "__init__" /\ call.args[2] = 0) =>
        /\ exc # "none"
        /\ ~constructed
        /\ Writes(bus) = <<>>

(***************************************************************************)
(* C15: immediately after construction the in-memory entry-mode bitmask    *)
(* has the increment flag (ENTRY_MODE_INC) set and the other flag clear,   *)
(* scroll_lock reads true, and the EntryModeSet command issued by init     *)
(* encodes exactly the in-memory bitmask.                                  *)
(***************************************************************************)
JustConstructed == call.op = "__init__" /\ constructed

InitEntryModeSet == LastTransfers[Len(LastTransfers)]

C15_DefaultIncrement ==
    JustConstructed =>
        /\ _entry_mode = ENTRY_MODE_INC
        /\ get_scroll_lock
        /\ InitEntryModeSet = Command(ENTRY_MODE_SET + _entry_mode)

(***************************************************************************)
(* C15, amended: immediately after construction the in-memory entry-mode   *)
(* bitmask is 0x02: flag 0x02 (ENTRY_MODE_SHLEFT) is set and flag 0x01     *)
(* (ENTRY_MODE_INC) is clear, so left_to_right reads true and scroll_lock  *)
(* reads false; the EntryModeSet command issued by init is 0x06 and        *)
(* encodes exactly the in-memory bitmask.                                  *)
(***************************************************************************)
C15_DefaultLeftToRight ==
    JustConstructed =>
        /\ _entry_mode = ENTRY_MODE_SHLEFT
        /\ get_left_to_right
        /\ ~get_scroll_lock
        /\ InitEntryModeSet = Command(ENTRY_MODE_SET + _entry_mode)
        /\ InitEntryModeSet.val = 6
        /\ dev_entry_mode = _entry_mode

C15_Witness ==
    /\ JustConstructed
    /\ exc = "none"
    /\ Len(LastTransfers) = 4
    /\ IsCmd(InitEntryModeSet, ENTRY_MODE_SET)

(***************************************************************************)
(* C16: every write_reg(b) makes exactly two bus writes to the device      *)
(* address, b with the enable bit (0x04) set and then b with it clear, all *)
(* other bits identical, at least 450 ns apart and followed by at least    *)
(* 40 us before anything else; so in the bus trace of every completed      *)
(* operation the writes alternate EN = 1, EN = 0.                          *)
(***************************************************************************)
\* The time slept between positions i and j of the trace, in nanoseconds;
\* -1 when a bus write lies between them.
RECURSIVE Wait(_, _, _)
Wait(ev, i, j) ==
    IF i + 1 >= j THEN 0
    ELSE IF IsWrite(ev[i + 1]) THEN -1
    ELSE LET rest == Wait(ev, i + 1, j)
         IN  IF rest < 0 THEN -1 ELSE ev[i + 1].ns + rest

WriteAt(ev) ==
    LET at(i) == IsWrite(ev[i])
    IN  SelectSeq([i \in 1..Len(ev) |-> i], at)

EnablePulse(ev, rising, falling, next) ==
    /\ ev[rising].a = addr
    /\ ev[falling].a = addr
    /\ Bit(ev[rising].v, REG_EN) = 1
    /\ Bit(ev[falling].v, REG_EN) = 0
    /\ ev[rising].v = ev[falling].v + REG_EN
    /\ Wait(ev, rising, falling) >= 450
    /\ Wait(ev, falling, next) >= 40000

C16_EnablePulses ==
    (constructed /\ exc = "none") =>
        LET at == WriteAt(bus)
        IN  /\ Len(at) % 2 = 0
            /\ \A j \in 1..(Len(at) \div 2) :
                   EnablePulse(bus, at[2 * j - 1], at[2 * j],
                               IF 2 * j < Len(at) THEN at[2 * j + 1]
                               ELSE Len(bus) + 1)

C16_Witness ==
    /\ call.op = "write_text"
    /\ exc = "none"
    /\ Len(Writes(bus)) = 8
    /\ Len(LastPulses) = 4

(***************************************************************************)
(* C17: every value handed to the bus write primitive, for any byte 0..255 *)
(* given to write_char and during construction, is an 8-bit value (0..255) *)
(* with the read/write bit (0x02) clear, and its bits D7..D4 carry one     *)
(* nibble of the byte transferred: the high nibble in the first pulse, the *)
(* low nibble in the second.                                               *)
(***************************************************************************)
CarriesNibbles(w, byte) ==
    /\ Len(w) = 4
    /\ Nibble(w[1].v) = byte \div 16
    /\ Nibble(w[2].v) = byte \div 16
    /\ Nibble(w[3].v) = byte % 16
    /\ Nibble(w[4].v) = byte % 16

C17_BusBytes ==
    /\ \A i \in 1..Len(Writes(bus)) :
           /\ Writes(bus)[i].v \in 0..255
           /\ Bit(Writes(bus)[i].v, REG_RW) = 0
    /\ call.op = "write_char" => CarriesNibbles(Writes(bus), call.args[1])

(***************************************************************************)
(* C18: during construction at least 4.5 ms pass between the end of the    *)
(* first forcing pulse and the start of the second, at least 100 us        *)
(* between the second and the third, and at least 1.52 ms between the      *)
(* ClearDisplay command and the next bus write (EntryModeSet); no bus      *)
(* write occurs inside these waits.                                        *)
(***************************************************************************)
\* The position in the trace of the falling edge of pulse p, and of the
\* rising edge of the pulse after it.
PulseEnd(p) == WriteAt(bus)[2 * p]
PulseStart(p) == WriteAt(bus)[2 * p - 1]

\* The pulse that ends command i of construction, after the four forcing
\* pulses.
CommandEnd(i) == 4 + 2 * i

InitWaits ==
    /\ Len(LastPulses) >= 4
    /\ Wait(bus, PulseEnd(1), PulseStart(2)) >= 4500000
    /\ Wait(bus, PulseEnd(2), PulseStart(3)) >= 100000
    /\ \E i \in 1..(Len(LastTransfers) - 1) :
           /\ LastTransfers[i] = Command(CLEAR_DISPLAY)
           /\ IsCmd(LastTransfers[i + 1], ENTRY_MODE_SET)
    /\ \A i \in 1..(Len(LastTransfers) - 1) :
           LastTransfers[i] = Command(CLEAR_DISPLAY) =>
               Wait(bus, PulseEnd(CommandEnd(i)),
                    PulseStart(CommandEnd(i) + 1)) >= 1520000

C18_InitWaits == JustConstructed => InitWaits

C18_Witness ==
    /\ JustConstructed
    /\ Len(LastPulses) = 12
    /\ LastTransfers[3] = Command(CLEAR_DISPLAY)
    /\ Wait(bus, PulseEnd(10), PulseStart(11)) > 0

(***************************************************************************)
(* C19: when the bus write fails while an attribute setter executes, the   *)
(* in-memory display-control and entry-mode bitmasks still equal the flag  *)
(* bits of the last DisplaySet and EntryModeSet commands that were written *)
(* completely: memory is not left ahead of the device.                     *)
(***************************************************************************)
SetterOps ==
    { "display", "cursor", "cursor_blink",
      "scroll_lock", "left_to_right", "right_to_left" }

C19_MemoryNotAhead ==
    (exc = "IOError" /\ call.op \in SetterOps) =>
        /\ _display = dev_display
        /\ _entry_mode = dev_entry_mode

(***************************************************************************)
(* C20: in every bus write the driver makes over its lifetime, the four    *)
(* forcing pulses of construction included, the backlight bit (0x08) of    *)
(* the byte equals the driver's backlight flag at the moment of the write. *)
(* The flag is set before the first write of construction and does not     *)
(* change while a call runs, so it is the flag the call ends with.         *)
(***************************************************************************)
C20_BacklightAlways ==
    constructed =>
        \A i \in 1..Len(Writes(bus)) :
            Bit(Writes(bus)[i].v, REG_BL) = BacklightBit

=============================================================================
